---- MODULE Spec2Model ----
(***************************************************************************)
(* Model of the local database provider of clowder                         *)
(* (controllers/cloud.redhat.com/providers/localdb.go).                    *)
(*                                                                         *)
(* Each element of Procs is one localDbProvider driven by a reconcile      *)
(* loop: it invokes CreateDatabase for an application, and after the call  *)
(* returned the caller may invoke Configure.  The resource store (the      *)
(* Kubernetes API behind db.Client) is shared by all providers.  Every     *)
(* round-trip to the store is one atomic step.  The error checks that      *)
(* follow a round-trip and the local computation that prepares the         *)
(* argument of a round-trip (credential generation, the builders) belong   *)
(* to the step of that round-trip.                                         *)
(***************************************************************************)
EXTENDS Integers, Sequences, FiniteSets, TLC

\* ---------------------------------------------------------------- bounds
\* invocations of CreateDatabase, all providers together
MaxCalls == 3
\* number of distinct strings the random generator can return
MaxCred == 2

\* ------------------------------------------------------------- constants
DbPort == 5432
Replicas == 1

Procs == {"r1", "r2"}

\* the ClowdApp descriptors handed to CreateDatabase
Apps == { [Name |-> "orders", Namespace |-> "prod", DbName |-> "orders_db"] }

\* descriptors of several applications, some sharing a name or a namespace
AppsIds == { [Name |-> "orders", Namespace |-> "prod", DbName |-> "orders_db"],
             [Name |-> "orders", Namespace |-> "dev",  DbName |-> "orders_db"],
             [Name |-> "users",  Namespace |-> "prod", DbName |-> "users_db"] }

\* db.Env.Spec.Database.Image
Image == "postgres:13"

Kinds == {"Deployment", "Service", "PersistentVolumeClaim"}

\* error values; "nil" is the nil error
ErrNil == "nil"
ErrNotFound == "NotFound"
ErrAlreadyExists == "AlreadyExists"
ErrUnavailable == "StoreUnavailable"
ErrAlreadyCreated == "DB has already been created"

\* what the store may answer instead of serving a call; "" is no fault
StoreErrors == {ErrUnavailable}
Faults == {""} \cup StoreErrors
\* ------------------------------------------------------------ variables
VARIABLES
    store,      \* the objects held by the resource store
    store0,     \* history: the store before any invocation
    env,        \* fixed by Init: the descriptors the callers pass, the
                \* outcomes the store can force on a call, and the strings
                \* RandString can return
    pc,         \* per provider: position inside CreateDatabase
    calls,      \* history: number of invocations started, all providers
    app,        \* per provider: the app argument of the current invocation
    nn,         \* local nn
    exists,     \* local exists (the workload's Updater)
    update,     \* local update (the endpoint's / storage's Updater)
    cfg,        \* local cfg
    labels,     \* the label map of the descriptor object passed as app
    result,     \* the error returned by the current invocation
    Config,     \* field db.Config: <<>> is nil, <<c>> points to c
    appConfig,  \* c.Database of the caller's AppConfig, same encoding
    configured, \* history: Configure ran after the current invocation
    log,        \* history: the store calls of the current invocation
    rand,       \* history: RandString calls of the current invocation
    last,       \* history: the previous invocation of this provider
    invoked,    \* history: per identity, invocations begun
    touched,    \* history: per identity, invocations that fetched the endpoint
    wins        \* history: per identity, invocations that returned nil

procVars == <<pc, calls, app, nn, exists, update, cfg, result>>
histVars == <<store0, env, configured, log, rand, last, invoked, touched, wins>>
vars == <<store, procVars, labels, Config, appConfig, histVars>>

\* the zero value of config.DatabaseConfig
ZeroConfig == [Hostname |-> "", Port |-> 0, Username |-> "", Password |-> "",
               PgPass |-> "", Name |-> ""]

ZeroNN == [Name |-> "", Namespace |-> ""]

\* utils.RandString(16): any string of the generator's range
CredSet == { "rnd" \o ToString(i) : i \in 1..MaxCred }

\* variant: the namespace of the application is not taken over
Derive_NameOnly(a) == [Name |-> a.Name \o "-db", Namespace |-> ""]

\* types.NamespacedName{Name: fmt.Sprintf("%v-db", app.Name), Namespace: app.Namespace}
Derive(a) == [Name |-> a.Name \o "-db", Namespace |-> a.Namespace]

\* fmt.Sprintf("%v.%v.svc", nn.Name, nn.Namespace)
Hostname(n) == n.Name \o "." \o n.Namespace \o ".svc"

MakeConfig(n, a, user, pass, pgpass) ==
    [Hostname |-> Hostname(n), Port |-> DbPort, Username |-> user,
     Password |-> pass, PgPass |-> pgpass, Name |-> a.DbName]

\* ------------------------------------------------------------- builders
\* the label map a descriptor carries when the caller passes it: a set of
\* <<key, value>> pairs
InitialLabels(a) == { <<"app", a.Name>> }

\* m[key] = value on a label map
SetLabel(m, key, value) == { kv \in m : kv[1] # key } \cup { <<key, value>> }

\* labels := pp.GetLabels(); labels["service"] = "db": GetLabels hands out the
\* descriptor's own map, the assignment writes through it
InjectServiceLabel(p) ==
    labels' = [labels EXCEPT ![p] = SetLabel(@, "service", "db")]

\* pp.SetObjectMeta(o, crd.Name(..), ...): name from the option, namespace
\* of the owning application
SetObjectMeta(kind, n, pp) ==
    [kind |-> kind, name |-> n.Name, namespace |-> pp.Namespace]

makeLocalDB(n, pp, c, image) ==
    [meta |-> SetObjectMeta("Deployment", n, pp),
     spec |-> [replicas |-> Replicas,
               volume |-> n.Name,
               claimName |-> n.Name,
               image |-> image,
               env |-> [POSTGRESQL_USER |-> c.Username,
                        POSTGRESQL_PASSWORD |-> c.Password,
                        PGPASSWORD |-> c.PgPass,
                        POSTGRESQL_DATABASE |-> pp.DbName],
               port |-> DbPort]]

\* variant: the endpoint is named after the application, not the identity
makeLocalService_AppName(n, pp) ==
    [meta |-> SetObjectMeta("Service", [Name |-> pp.Name], pp),
     spec |-> [portName |-> "database", port |-> DbPort, protocol |-> "TCP"]]

makeLocalService(n, pp) ==
    [meta |-> SetObjectMeta("Service", n, pp),
     spec |-> [portName |-> "database", port |-> DbPort, protocol |-> "TCP"]]

makeLocalPVC(n, pp) ==
    [meta |-> SetObjectMeta("PersistentVolumeClaim", n, pp),
     spec |-> [accessMode |-> "ReadWriteOnce", storage |-> "1Gi"]]

\* ---------------------------------------------------------------- store
At(st, kind, n) ==
    { o \in st : o.meta.kind = kind /\ o.meta.name = n.Name
                 /\ o.meta.namespace = n.Namespace }

Has(st, kind, n) == At(st, kind, n) # {}

\* db.Client.Get: the error of the fetch
ClientGet(st, kind, n, fault) ==
    IF fault # "" THEN fault
    ELSE IF Has(st, kind, n) THEN ErrNil ELSE ErrNotFound

\* Client.Create: rejected when an object of that kind and identity exists
ClientCreate(st, o) ==
    IF \E x \in st : x.meta = o.meta
    THEN [store |-> st, err |-> ErrAlreadyExists]
    ELSE [store |-> st \cup {o}, err |-> ErrNil]

\* Client.Update: replaces the object in place
ClientUpdate(st, o) ==
    IF \E x \in st : x.meta = o.meta
    THEN [store |-> { x \in st : x.meta # o.meta } \cup {o}, err |-> ErrNil]
    ELSE [store |-> st, err |-> ErrNotFound]

\* utils.UpdateOrErr: not-found is no error and selects create
UpdateOrErr(err) ==
    IF err = ErrNil THEN [update |-> TRUE, err |-> ErrNil]
    ELSE IF err = ErrNotFound THEN [update |-> FALSE, err |-> ErrNil]
    ELSE [update |-> FALSE, err |-> err]

\* Updater.Apply: update in place when the fetch found the object
Apply(upd, st, o, fault) ==
    LET r == IF fault # "" THEN [store |-> st, err |-> fault]
             ELSE IF upd THEN ClientUpdate(st, o) ELSE ClientCreate(st, o)
    IN  [store |-> r.store, err |-> r.err,
         op |-> IF upd THEN "Update" ELSE "Create"]

\* --------------------------------------------------------------- Init
\* The resources another writer may have left at an identity before the
\* first invocation.
Preexisting(a) ==
    { makeLocalDB(Derive(a), a, MakeConfig(Derive(a), a, "olduser", "oldpass", "oldpg"), Image),
      makeLocalService(Derive(a), a),
      makeLocalPVC(Derive(a), a) }

InitStores == SUBSET (UNION { Preexisting(a) : a \in Apps })

NoLast == [app |-> [Name |-> "", Namespace |-> "", DbName |-> ""],
           result |-> "", applied |-> {}]

\* the identities of all descriptors
Identities == { Derive(a) : a \in Apps \cup AppsIds }

\* the state after construction, for the stores and the environment given
InitEnv(stores, e) ==
    /\ store \in stores
    /\ store0 = store
    /\ env = e
    /\ pc = [p \in Procs |-> "idle"]
    /\ calls = 0
    /\ app = [p \in Procs |-> NoLast.app]
    /\ nn = [p \in Procs |-> ZeroNN]
    /\ exists = [p \in Procs |-> FALSE]
    /\ update = [p \in Procs |-> FALSE]
    /\ cfg = [p \in Procs |-> ZeroConfig]
    /\ labels = [p \in Procs |-> {}]
    /\ result = [p \in Procs |-> ""]
    /\ Config = [p \in Procs |-> <<>>]
    /\ appConfig = [p \in Procs |-> <<>>]
    /\ configured = [p \in Procs |-> FALSE]
    /\ log = [p \in Procs |-> <<>>]
    /\ rand = [p \in Procs |-> 0]
    /\ last = [p \in Procs |-> NoLast]
    /\ invoked = [n \in Identities |-> 0]
    /\ touched = [n \in Identities |-> 0]
    /\ wins = [n \in Identities |-> 0]

Init ==
    InitEnv(InitStores,
            [descriptors |-> Apps, faults |-> Faults, rands |-> CredSet])

\* -------------------------------------------------------------- actions
Logged(p, op, kind, err) ==
    log' = [log EXCEPT ![p] = Append(@, [op |-> op, kind |-> kind, err |-> err])]

\* return err; the local cfg is kept only for the caller of a successful call
Return(p, err) ==
    /\ pc' = [pc EXCEPT ![p] = "done"]
    /\ result' = [result EXCEPT ![p] = err]
    /\ cfg' = [cfg EXCEPT ![p] = IF err = ErrNil THEN @ ELSE ZeroConfig]

\* the kinds an invocation with store calls l has written to the store
AppliedKinds(l) ==
    { l[i].kind : i \in { j \in DOMAIN l : l[j].op # "Get" /\ l[j].err = ErrNil } }

\* The caller enters CreateDatabase(app); nn is computed on entry.
Invoke(p, a) ==
    /\ pc[p] \in {"idle", "done"}
    /\ calls < MaxCalls
    /\ calls' = calls + 1
    /\ pc' = [pc EXCEPT ![p] = "getDD"]
    /\ app' = [app EXCEPT ![p] = a]
    /\ nn' = [nn EXCEPT ![p] = Derive(a)]
    /\ exists' = [exists EXCEPT ![p] = FALSE]
    /\ update' = [update EXCEPT ![p] = FALSE]
    /\ cfg' = [cfg EXCEPT ![p] = ZeroConfig]
    /\ labels' = [labels EXCEPT ![p] = InitialLabels(a)]
    /\ result' = [result EXCEPT ![p] = ""]
    /\ configured' = [configured EXCEPT ![p] = FALSE]
    /\ log' = [log EXCEPT ![p] = <<>>]
    /\ rand' = [rand EXCEPT ![p] = 0]
    /\ invoked' = [invoked EXCEPT ![Derive(a)] = @ + 1]
    /\ last' = [last EXCEPT ![p] =
                  IF pc[p] = "idle" THEN NoLast
                  ELSE [app |-> app[p], result |-> result[p],
                        applied |-> AppliedKinds(log[p])]]
    /\ UNCHANGED <<store, store0, env, Config, appConfig, touched, wins>>

\* variant: the "if exists" return is missing
AfterGetDD_NoExistsCheck(p, r) ==
    /\ UNCHANGED rand
    /\ IF r.err # ErrNil
       THEN Return(p, r.err)
       ELSE pc' = [pc EXCEPT ![p] = "applyDD"] /\ UNCHANGED <<result, cfg>>

\* variant: the credentials are generated before the fetch result is examined
AfterGetDD_EagerCreds(p, r) ==
    /\ rand' = [rand EXCEPT ![p] = @ + 3]
    /\ IF r.err # ErrNil
       THEN Return(p, r.err)
       ELSE IF r.update
       THEN Return(p, ErrAlreadyCreated)
       ELSE pc' = [pc EXCEPT ![p] = "applyDD"] /\ UNCHANGED <<result, cfg>>

\* variant: the "if err != nil" return after the dd fetch is missing
AfterGetDD_IgnoreErr(p, r) ==
    /\ UNCHANGED rand
    /\ IF r.update
       THEN Return(p, ErrAlreadyCreated)
       ELSE pc' = [pc EXCEPT ![p] = "applyDD"] /\ UNCHANGED <<result, cfg>>

\* the two early returns after the dd fetch
AfterGetDD(p, r) ==
    /\ UNCHANGED rand
    /\ IF r.err # ErrNil
       THEN Return(p, r.err)
       ELSE IF r.update
       THEN Return(p, ErrAlreadyCreated)
       ELSE pc' = [pc EXCEPT ![p] = "applyDD"] /\ UNCHANGED <<result, cfg>>

\* dd fetch and the two early returns
GetDD(p) ==
    /\ pc[p] = "getDD"
    /\ \E fault \in env.faults :
        LET e == ClientGet(store, "Deployment", nn[p], fault)
            r == UpdateOrErr(e)
        IN  /\ Logged(p, "Get", "Deployment", e)
            /\ exists' = [exists EXCEPT ![p] = r.update]
            /\ AfterGetDD(p, r)
    /\ UNCHANGED <<labels, store, store0, env, invoked, calls, app, nn, update, Config, appConfig,
                   configured, last, touched, wins>>

\* variant: the error of exists.Apply is dropped
ApplyDD_NoErrCheck(p) ==
    /\ pc[p] = "applyDD"
    /\ \E fault \in env.faults, user \in env.rands, pass \in env.rands,
          pgpass \in env.rands :
        LET c == MakeConfig(nn[p], app[p], user, pass, pgpass)
            r == Apply(exists[p], store, makeLocalDB(nn[p], app[p], c, Image), fault)
        IN  /\ rand' = [rand EXCEPT ![p] = @ + 3]
            /\ InjectServiceLabel(p)
            /\ Logged(p, r.op, "Deployment", r.err)
            /\ store' = r.store
            /\ cfg' = [cfg EXCEPT ![p] = c]
            /\ pc' = [pc EXCEPT ![p] = "getSvc"]
    /\ UNCHANGED <<store0, env, invoked, calls, app, nn, exists, update, result, Config,
                   appConfig, configured, last, touched, wins>>

\* construction of cfg (three calls of utils.RandString), makeLocalDB and
\* exists.Apply
ApplyDD(p) ==
    /\ pc[p] = "applyDD"
    /\ \E fault \in env.faults, user \in env.rands, pass \in env.rands,
          pgpass \in env.rands :
        LET c == MakeConfig(nn[p], app[p], user, pass, pgpass)
            r == Apply(exists[p], store, makeLocalDB(nn[p], app[p], c, Image), fault)
        IN  /\ rand' = [rand EXCEPT ![p] = @ + 3]
            /\ InjectServiceLabel(p)
            /\ Logged(p, r.op, "Deployment", r.err)
            /\ store' = r.store
            /\ IF r.err # ErrNil
               THEN Return(p, r.err)
               ELSE /\ pc' = [pc EXCEPT ![p] = "getSvc"]
                    /\ cfg' = [cfg EXCEPT ![p] = c]
                    /\ UNCHANGED result
    /\ UNCHANGED <<store0, env, invoked, calls, app, nn, exists, update, Config,
                   appConfig, configured, last, touched, wins>>

\* variant: the endpoint is created whether or not the fetch found it
GetSvc_AlwaysCreate(p) ==
    /\ pc[p] = "getSvc"
    /\ \E fault \in env.faults :
        LET e == ClientGet(store, "Service", nn[p], fault)
            r == UpdateOrErr(e)
        IN  /\ Logged(p, "Get", "Service", e)
            /\ touched' = [touched EXCEPT ![nn[p]] = @ + 1]
            /\ update' = [update EXCEPT ![p] = FALSE]
            /\ IF r.err # ErrNil
               THEN Return(p, r.err)
               ELSE pc' = [pc EXCEPT ![p] = "applySvc"] /\ UNCHANGED <<result, cfg>>
    /\ UNCHANGED <<labels, store, store0, env, invoked, calls, app, nn, exists,
                   Config, appConfig, configured, rand, last, wins>>

\* fetch of s
GetSvc(p) ==
    /\ pc[p] = "getSvc"
    /\ \E fault \in env.faults :
        LET e == ClientGet(store, "Service", nn[p], fault)
            r == UpdateOrErr(e)
        IN  /\ Logged(p, "Get", "Service", e)
            /\ touched' = [touched EXCEPT ![nn[p]] = @ + 1]
            /\ update' = [update EXCEPT ![p] = r.update]
            /\ IF r.err # ErrNil
               THEN Return(p, r.err)
               ELSE pc' = [pc EXCEPT ![p] = "applySvc"] /\ UNCHANGED <<result, cfg>>
    /\ UNCHANGED <<labels, store, store0, env, invoked, calls, app, nn, exists, Config,
                   appConfig, configured, rand, last, wins>>

\* variant: the error of the endpoint's update.Apply is dropped
ApplySvc_NoErrCheck(p) ==
    /\ pc[p] = "applySvc"
    /\ \E fault \in env.faults :
        LET r == Apply(update[p], store, makeLocalService(nn[p], app[p]), fault)
        IN  /\ InjectServiceLabel(p)
            /\ Logged(p, r.op, "Service", r.err)
            /\ store' = r.store
            /\ pc' = [pc EXCEPT ![p] = "getPVC"]
    /\ UNCHANGED <<store0, env, invoked, calls, app, nn, exists, update, cfg, result, Config,
                   appConfig, configured, rand, last, touched, wins>>

\* variant: a failed update.Apply of the endpoint is tried again
ApplySvc_Retry(p) ==
    /\ pc[p] = "applySvc"
    /\ \E fault \in env.faults :
        LET r == Apply(update[p], store, makeLocalService(nn[p], app[p]), fault)
        IN  /\ InjectServiceLabel(p)
            /\ Logged(p, r.op, "Service", r.err)
            /\ store' = r.store
            /\ pc' = [pc EXCEPT ![p] = IF r.err # ErrNil THEN "applySvc"
                                       ELSE "getPVC"]
    /\ UNCHANGED <<store0, env, invoked, calls, app, nn, exists, update, cfg,
                   result, Config, appConfig, configured, rand, last, touched,
                   wins>>

\* makeLocalService and update.Apply
ApplySvc(p) ==
    /\ pc[p] = "applySvc"
    /\ \E fault \in env.faults :
        LET r == Apply(update[p], store, makeLocalService(nn[p], app[p]), fault)
        IN  /\ InjectServiceLabel(p)
            /\ Logged(p, r.op, "Service", r.err)
            /\ store' = r.store
            /\ IF r.err # ErrNil
               THEN Return(p, r.err)
               ELSE pc' = [pc EXCEPT ![p] = "getPVC"] /\ UNCHANGED <<result, cfg>>
    /\ UNCHANGED <<store0, env, invoked, calls, app, nn, exists, update, Config,
                   appConfig, configured, rand, last, touched, wins>>

\* fetch of pvc
GetPVC(p) ==
    /\ pc[p] = "getPVC"
    /\ \E fault \in env.faults :
        LET e == ClientGet(store, "PersistentVolumeClaim", nn[p], fault)
            r == UpdateOrErr(e)
        IN  /\ Logged(p, "Get", "PersistentVolumeClaim", e)
            /\ update' = [update EXCEPT ![p] = r.update]
            /\ IF r.err # ErrNil
               THEN Return(p, r.err)
               ELSE pc' = [pc EXCEPT ![p] = "applyPVC"] /\ UNCHANGED <<result, cfg>>
    /\ UNCHANGED <<labels, store, store0, env, invoked, calls, app, nn, exists, Config,
                   appConfig, configured, rand, last, touched, wins>>

\* makeLocalPVC, update.Apply and the final return nil
ApplyPVC(p) ==
    /\ pc[p] = "applyPVC"
    /\ \E fault \in env.faults :
        LET r == Apply(update[p], store, makeLocalPVC(nn[p], app[p]), fault)
        IN  /\ InjectServiceLabel(p)
            /\ Logged(p, r.op, "PersistentVolumeClaim", r.err)
            /\ store' = r.store
            /\ wins' = [wins EXCEPT ![nn[p]] = IF r.err = ErrNil THEN @ + 1 ELSE @]
            /\ Return(p, r.err)
    /\ UNCHANGED <<store0, env, invoked, calls, app, nn, exists, update, Config,
                   appConfig, configured, rand, last, touched>>

\* Configure(c): c.Database = db.Config, called once CreateDatabase returned
Configure(p) ==
    /\ pc[p] = "done"
    /\ ~configured[p]
    /\ appConfig' = [appConfig EXCEPT ![p] = Config[p]]
    /\ configured' = [configured EXCEPT ![p] = TRUE]
    /\ UNCHANGED <<labels, store, store0, env, invoked, procVars, Config, log, rand, last, touched, wins>>

Next ==
    \E p \in Procs :
        \/ \E a \in env.descriptors : Invoke(p, a)
        \/ GetDD(p)
        \/ ApplyDD(p)
        \/ GetSvc(p)
        \/ ApplySvc(p)
        \/ GetPVC(p)
        \/ ApplyPVC(p)
        \/ Configure(p)

Spec == Init /\ [][Next]_vars

\* several applications provisioned into an empty store
InitIds ==
    InitEnv({{}},
            [descriptors |-> AppsIds, faults |-> Faults, rands |-> {"rnd1"}])

SpecIds == InitIds /\ [][Next]_vars

\* a step of the invocation provider p is running
Step(p) ==
    \/ GetDD(p) \/ ApplyDD(p) \/ GetSvc(p) \/ ApplySvc(p)
    \/ GetPVC(p) \/ ApplyPVC(p)

\* an invocation is a single thread that is never suspended for good
InitFair ==
    InitEnv(InitStores,
            [descriptors |-> Apps, faults |-> Faults, rands |-> {"rnd1"}])

FairSpec ==
    InitFair /\ [][Next]_vars /\ \A p \in Procs : WF_vars(Step(p))

TypeOK ==
    /\ \A p \in Procs : pc[p] \in {"idle", "getDD", "applyDD", "getSvc",
                                   "applySvc", "getPVC", "applyPVC", "done"}
    /\ calls \in 0..MaxCalls

\* ------------------------------------------------- vocabulary of the claims
Entry(op, kind, err) == [op |-> op, kind |-> kind, err |-> err]

\* the store call failed: a fetch that reports not-found is no failure
IsFailure(e) == e.err # ErrNil /\ ~(e.op = "Get" /\ e.err = ErrNotFound)

\* some store call of l was answered with an injected store error
Faulted(l) == \E i \in DOMAIN l : l[i].err \in StoreErrors

IsApply(e) == e.op \in {"Create", "Update"}

Credentials(o) == <<o.spec.env.POSTGRESQL_USER, o.spec.env.POSTGRESQL_PASSWORD,
                    o.spec.env.PGPASSWORD>>

\* ----------------------------------------------------------------- C1
\* C1: two invocations in sequence for the same descriptor, on a store that
\* held no workload at the identity and never answers with a store error:
\* the first returns nil, the second returns "DB has already been created",
\* calls RandString zero times and applies nothing.
\* (calls = 2 and a previous invocation of p for the same app: the only two
\* invocations so far are p's, one after the other)
C1_SecondCallAlreadyCreated ==
    \A p \in Procs :
        ( /\ pc[p] = "done"
          /\ calls = 2
          /\ last[p].app = app[p]
          /\ ~Has(store0, "Deployment", nn[p])
          /\ last[p].result \notin StoreErrors
          /\ ~Faulted(log[p]) )
        => /\ last[p].result = ErrNil
           /\ result[p] = ErrAlreadyCreated
           /\ rand[p] = 0
           /\ \A i \in DOMAIN log[p] : ~IsApply(log[p][i])

C1_Witness ==
    \E p \in Procs :
        /\ pc[p] = "done" /\ calls = 2
        /\ last[p].app = app[p]
        /\ ~Has(store0, "Deployment", nn[p])
        /\ last[p].result = ErrNil
        /\ result[p] = ErrAlreadyCreated

\* ----------------------------------------------------------------- C2
\* C2: in every invocation RandString is called three times if the workload
\* fetch reported not-found, and zero times if it found the workload or
\* failed with another error (and zero times before the fetch; pc = "applyDD"
\* is the invocation between the not-found fetch and the construction of cfg).
C2_CredentialsIffAbsent ==
    \A p \in Procs :
        IF log[p] # <<>> /\ log[p][1].err = ErrNotFound /\ pc[p] # "applyDD"
        THEN rand[p] = 3
        ELSE rand[p] = 0

C2_Witness ==
    \E p, q \in Procs :
        /\ log[p] # <<>> /\ log[p][1].err = ErrNotFound /\ rand[p] = 3
        /\ log[q] # <<>> /\ log[q][1].err = ErrNil /\ rand[q] = 0

\* ----------------------------------------------------------------- C3
\* C3: a workload held by the store keeps its credentials in every step,
\* whatever the interleaving and the store errors.
C3_CredentialStability ==
    [][ \A o \in store :
          o.meta.kind = "Deployment"
          => \E o2 \in store' : /\ o2.meta = o.meta
                                /\ Credentials(o2) = Credentials(o) ]_vars

\* a concurrent invocation issued its create with freshly generated
\* credentials against the workload another invocation had created
C3_Witness ==
    \E p \in Procs :
        /\ Len(log[p]) = 2 /\ log[p][2] = Entry("Create", "Deployment", ErrAlreadyExists)
        /\ rand[p] = 3
        /\ \E q \in Procs \ {p} :
             /\ Len(log[q]) >= 2 /\ log[q][2] = Entry("Create", "Deployment", ErrNil)
             /\ \E o \in At(store, "Deployment", nn[p]) :
                  Credentials(o) = <<cfg[q].Username, cfg[q].Password, cfg[q].PgPass>>

\* ----------------------------------------------------------------- C4
\* C4: once CreateDatabase returned nil, Configure publishes the config that
\* invocation generated, fully populated; after an error it publishes none.
C4_PublishesGeneratedConfig ==
    \A p \in Procs :
        configured[p]
        => IF result[p] = ErrNil
           THEN /\ appConfig[p] = <<cfg[p]>>
                /\ cfg[p].Hostname = Hostname(Derive(app[p]))
                /\ cfg[p].Port = DbPort
                /\ cfg[p].Username \in CredSet
                /\ cfg[p].Password \in CredSet
                /\ cfg[p].PgPass \in CredSet
                /\ cfg[p].Name = app[p].DbName
           ELSE appConfig[p] = <<>>

\* ----------------------------------------------------------------- C5
\* C5: the store never holds two workloads at one identity; when two
\* invocations for one identity both observed the workload absent, both
\* issue a create, at most one create succeeds, and unless a create was
\* answered with a store error exactly one succeeds and the other
\* invocation returns the store's AlreadyExists conflict.
BothObservedAbsent(p, q) ==
    /\ p # q /\ nn[p] = nn[q]
    /\ Len(log[p]) >= 2 /\ Len(log[q]) >= 2
    /\ log[p][1] = Entry("Get", "Deployment", ErrNotFound)
    /\ log[q][1] = Entry("Get", "Deployment", ErrNotFound)

C5_CreateRace ==
    /\ \A a \in Apps : Cardinality(At(store, "Deployment", Derive(a))) <= 1
    /\ \A p, q \in Procs :
         BothObservedAbsent(p, q)
         => /\ log[p][2].op = "Create" /\ log[p][2].kind = "Deployment"
            /\ log[q][2].op = "Create" /\ log[q][2].kind = "Deployment"
            /\ ~(log[p][2].err = ErrNil /\ log[q][2].err = ErrNil)
            /\ (log[p][2].err \notin StoreErrors /\ log[q][2].err \notin StoreErrors
                /\ log[p][2].err # ErrNil)
               => /\ log[q][2].err = ErrNil
                  /\ log[p][2].err = ErrAlreadyExists
                  /\ pc[p] = "done"
                  /\ result[p] = ErrAlreadyExists
                  /\ Len(log[p]) = 2

C5_Witness ==
    \E p, q \in Procs :
        /\ BothObservedAbsent(p, q)
        /\ log[q][2].err = ErrNil
        /\ result[p] = ErrAlreadyExists

\* ----------------------------------------------------------------- C6
\* C6: a provider whose previous invocation lost the create race and
\* returned AlreadyExists, re-invoked for the same identity, issues no
\* create, and once its fetch is served returns "DB has already been
\* created".
LostRace(p) ==
    /\ last[p].app = app[p]
    /\ last[p].result = ErrAlreadyExists
    /\ last[p].applied = {}

C6_RetryAfterLostRace ==
    \A p \in Procs :
        LostRace(p)
        => /\ \A i \in DOMAIN log[p] : log[p][i].op # "Create"
           /\ (pc[p] = "done" /\ ~Faulted(log[p]))
              => /\ result[p] = ErrAlreadyCreated
                 /\ log[p] = <<Entry("Get", "Deployment", ErrNil)>>

C6_Witness ==
    \E p \in Procs :
        LostRace(p) /\ pc[p] = "done" /\ result[p] = ErrAlreadyCreated

\* ----------------------------------------------------------------- C7
\* C7: a provider whose previous invocation applied the workload and then
\* failed at the endpoint or the storage, re-invoked for the same
\* descriptor with a store that answers every call, leaves the workload,
\* the endpoint and the storage claim in the store.
PartiallyProvisioned(p) ==
    /\ last[p].app = app[p]
    /\ "Deployment" \in last[p].applied
    /\ last[p].result # ErrNil

C7_ReinvocationCompletes ==
    \A p \in Procs :
        (PartiallyProvisioned(p) /\ pc[p] = "done" /\ ~Faulted(log[p]))
        => \A k \in Kinds : Has(store, k, nn[p])

\* ----------------------------------------------------------------- C8
\* C8: when the workload fetch fails with an error other than not-found,
\* the invocation returns exactly that error after this single store call,
\* RandString is never called, and the failing step leaves the store as it
\* was.
FetchFailed(p) == log[p] # <<>> /\ log[p][1].err \in StoreErrors

C8_FetchErrorNoSideEffect ==
    /\ [](\A p \in Procs :
            FetchFailed(p)
            => /\ pc[p] = "done"
               /\ result[p] = log[p][1].err
               /\ rand[p] = 0
               /\ Len(log[p]) = 1)
    /\ [][ \A p \in Procs :
             (pc[p] = "getDD" /\ pc'[p] # "getDD" /\ result'[p] \in StoreErrors)
             => store' = store ]_vars

C8_Witness ==
    \E p \in Procs :
        /\ FetchFailed(p) /\ pc[p] = "done"
        /\ result[p] = ErrUnavailable /\ store = store0

\* ----------------------------------------------------------------- C9
\* C9: a failed store call is the last store call of its invocation and its
\* error is the invocation's result; whatever the invocation applied before
\* is still in the store; after a failed endpoint apply the workload is in
\* the store and the storage claim was neither fetched nor applied.
EndpointApplyFailed(p) ==
    \E i \in DOMAIN log[p] :
        IsApply(log[p][i]) /\ log[p][i].kind = "Service" /\ IsFailure(log[p][i])

C9_FailFastNoRollback ==
    \A p \in Procs :
        /\ \A i \in DOMAIN log[p] :
             /\ IsFailure(log[p][i])
                => /\ i = Len(log[p])
                   /\ pc[p] = "done"
                   /\ result[p] = log[p][i].err
             /\ (IsApply(log[p][i]) /\ log[p][i].err = ErrNil)
                => Has(store, log[p][i].kind, nn[p])
        /\ EndpointApplyFailed(p)
           => /\ Has(store, "Deployment", nn[p])
              /\ \A i \in DOMAIN log[p] : log[p][i].kind # "PersistentVolumeClaim"

C9_Witness ==
    \E p \in Procs :
        /\ EndpointApplyFailed(p)
        /\ pc[p] = "done"
        /\ ~Has(store, "Service", nn[p])
        /\ ~Has(store, "PersistentVolumeClaim", nn[p])

\* ---------------------------------------------------------------- C10
\* C10: within one invocation an endpoint apply is preceded by a successful
\* workload apply, a storage apply by a successful endpoint apply, and the
\* applies follow the order workload, endpoint, storage.
AppliedBefore(l, i, kind) ==
    \E j \in 1..(i - 1) : IsApply(l[j]) /\ l[j].kind = kind /\ l[j].err = ErrNil

KindRank(kind) ==
    IF kind = "Deployment" THEN 1 ELSE IF kind = "Service" THEN 2 ELSE 3

C10_ApplyOrder ==
    \A p \in Procs :
        /\ \A i \in DOMAIN log[p] :
             IsApply(log[p][i])
             => /\ log[p][i].kind = "Service"
                   => AppliedBefore(log[p], i, "Deployment")
                /\ log[p][i].kind = "PersistentVolumeClaim"
                   => AppliedBefore(log[p], i, "Service")
        /\ \A i, j \in DOMAIN log[p] :
             (i < j /\ IsApply(log[p][i]) /\ IsApply(log[p][j]))
             => KindRank(log[p][i].kind) < KindRank(log[p][j].kind)

C10_Witness ==
    \E p \in Procs :
        /\ pc[p] = "done" /\ result[p] = ErrNil
        /\ Len(log[p]) = 6
        /\ log[p][6].kind = "PersistentVolumeClaim" /\ IsApply(log[p][6])

\* ---------------------------------------------------------------- C11
\* C11: the descriptor's own label map is never changed by CreateDatabase or
\* a builder: at every point of an invocation it is the map the caller
\* passed, so it holds service=db only if it did on entry.
C11_DescriptorLabelsUnchanged ==
    \A p \in Procs :
        pc[p] # "idle"
        => /\ labels[p] = InitialLabels(app[p])
           /\ <<"service", "db">> \in labels[p]
              => <<"service", "db">> \in InitialLabels(app[p])

\* ---------------------------------------------------------------- C12
\* the resources of st stored at identity n
Slice(st, n) ==
    { o \in st : o.meta.name = n.Name /\ o.meta.namespace = n.Namespace }

\* the store calls of an invocation that runs alone on an empty store
AloneLog ==
    << Entry("Get", "Deployment", ErrNotFound),
       Entry("Create", "Deployment", ErrNil),
       Entry("Get", "Service", ErrNotFound),
       Entry("Create", "Service", ErrNil),
       Entry("Get", "PersistentVolumeClaim", ErrNotFound),
       Entry("Create", "PersistentVolumeClaim", ErrNil) >>

\* the resources an invocation that runs alone leaves at its identity
AloneSlice(p) ==
    { makeLocalDB(nn[p], app[p], cfg[p], Image),
      makeLocalService(nn[p], app[p]),
      makeLocalPVC(nn[p], app[p]) }

\* provider p is the only one that was ever invoked for its identity
OnlyInvocation(p) ==
    /\ store0 = {}
    /\ nn[p] \in DOMAIN invoked
    /\ invoked[nn[p]] = 1

\* a step of p changes the store at the identity of p only
WritesOwnSlice(p) ==
    (store' \ store) \cup (store \ store')
        \subseteq Slice(store, nn[p]) \cup Slice(store', nn[p])

\* a fetch of p that the store answers reports what is at the identity of p
ReadsOwnSlice(p) ==
    (Len(log'[p]) = Len(log[p]) + 1 /\ log'[p][Len(log'[p])].op = "Get"
     /\ log'[p][Len(log'[p])].err \notin StoreErrors)
    => LET e == log'[p][Len(log'[p])]
       IN  (e.err = ErrNil)
           <=> (\E o \in Slice(store, nn[p]) : o.meta.kind = e.kind)

\* C12: invocations for distinct identities are independent: an invocation
\* that is the only one for its identity and meets no store error ends as
\* if it had run alone (result nil, the six calls of a lone run, exactly its
\* three resources at its identity), whatever invocations for other
\* identities are interleaved with it; and every step of an invocation
\* reads and writes the store at its own identity only.
C12_IdentitiesIndependent ==
    /\ [](\A p \in Procs :
            (pc[p] = "done" /\ OnlyInvocation(p) /\ ~Faulted(log[p]))
            => /\ result[p] = ErrNil
               /\ log[p] = AloneLog
               /\ Slice(store, nn[p]) = AloneSlice(p))
    /\ [][\A p \in Procs :
            pc'[p] # pc[p] => WritesOwnSlice(p) /\ ReadsOwnSlice(p)]_vars

\* two invocations for different identities, interleaved, both complete
C12_Witness ==
    \E p, q \in Procs :
        /\ nn[p] # nn[q]
        /\ pc[p] = "done" /\ OnlyInvocation(p) /\ ~Faulted(log[p])
        /\ pc[q] = "applySvc" /\ OnlyInvocation(q) /\ ~Faulted(log[q])
        /\ Slice(store, nn[q]) # {}
        /\ Slice(store, nn[p]) = AloneSlice(p)

\* ---------------------------------------------------------------- C13
\* Absent, Provisioning, Provisioned
PhaseRank(st, n) ==
    IF ~Has(st, "Deployment", n) THEN 0
    ELSE IF \A k \in Kinds : Has(st, k, n) THEN 2
    ELSE 1

\* every resource of the store is still there after the step
NothingDeleted ==
    \A o \in store : \E o2 \in store' : o2.meta = o.meta

\* no store call of l is made a second time, and a failed one is the last
NoRetry(l) ==
    \A i, j \in DOMAIN l :
        /\ IsFailure(l[i]) => i = Len(l)
        /\ (i < j /\ l[i].kind = l[j].kind) => IsApply(l[i]) # IsApply(l[j])

\* C13: per identity the provisioning state only moves forward: no step
\* deletes a resource, so the phase (Absent, Provisioning, Provisioned) of an
\* identity never decreases and a workload that exists exists in every later
\* state; and no invocation repeats a store call or goes on after a failed
\* one.
C13_ForwardOnly ==
    /\ [][/\ NothingDeleted
          /\ \A a \in env.descriptors :
                /\ PhaseRank(store', Derive(a)) >= PhaseRank(store, Derive(a))
                /\ Has(store, "Deployment", Derive(a))
                   => Has(store', "Deployment", Derive(a))]_vars
    /\ [](\A p \in Procs : NoRetry(log[p]))

\* an invocation failed at the endpoint after the workload had moved its
\* identity from Absent to Provisioning, and left it there
C13_Witness ==
    \E p \in Procs :
        /\ pc[p] = "done"
        /\ Len(log[p]) = 4
        /\ log[p][2] = Entry("Create", "Deployment", ErrNil)
        /\ IsApply(log[p][4]) /\ IsFailure(log[p][4])
        /\ PhaseRank(store0, nn[p]) = 0
        /\ PhaseRank(store, nn[p]) = 1

\* ---------------------------------------------------------------- C14
\* the identity the spec prescribes: <app-name>-db in the app's namespace
ExpectedIdentity(a) == [Name |-> a.Name \o "-db", Namespace |-> a.Namespace]

\* C14: when CreateDatabase has returned nil, the store holds exactly one
\* Deployment, one Service and one PersistentVolumeClaim named <app-name>-db
\* in the namespace of the application.
C14_OneOfEachAtIdentity ==
    \A p \in Procs :
        (pc[p] = "done" /\ result[p] = ErrNil)
        => \A k \in Kinds :
             Cardinality(At(store, k, ExpectedIdentity(app[p]))) = 1

\* a successful return for an application with a namesake in another
\* namespace that has resources of its own
C14_Witness ==
    \E p, q \in Procs :
        /\ pc[p] = "done" /\ result[p] = ErrNil
        /\ app[q].Name = app[p].Name /\ app[q].Namespace # app[p].Namespace
        /\ Has(store, "Deployment", ExpectedIdentity(app[q]))
        /\ \A k \in Kinds : Has(store, k, ExpectedIdentity(app[p]))

\* ---------------------------------------------------------------- C15
SamePair(a, b) == a.Name = b.Name /\ a.Namespace = b.Namespace

\* C15: the identity derivation is deterministic and injective: descriptors
\* with the same (name, namespace) get the same identity, descriptors with
\* distinct pairs get distinct identities, and the identity an invocation
\* works with is <app-name>-db in the namespace of its descriptor.
C15_DeriveInjective ==
    /\ \A a, b \in env.descriptors :
          (Derive(a) = Derive(b)) <=> SamePair(a, b)
    /\ \A p, q \in Procs :
          (pc[p] # "idle" /\ pc[q] # "idle")
          => /\ (nn[p] = nn[q]) <=> SamePair(app[p], app[q])
             /\ nn[p].Name = app[p].Name \o "-db"
             /\ nn[p].Namespace = app[p].Namespace

\* two running invocations for namesakes in different namespaces, after an
\* invocation for the same descriptor as the first
C15_Witness ==
    \E p, q \in Procs :
        /\ pc[p] # "idle" /\ pc[q] # "idle"
        /\ app[p].Name = app[q].Name
        /\ app[p].Namespace # app[q].Namespace
        /\ nn[p].Name = nn[q].Name /\ nn[p] # nn[q]
        /\ SamePair(last[p].app, app[p])

\* ---------------------------------------------------------------- C16
\* the fetch e of an endpoint or storage claim was answered by the store
Resolved(e) ==
    /\ e.op = "Get" /\ e.kind \in {"Service", "PersistentVolumeClaim"}
    /\ e.err \in {ErrNil, ErrNotFound}

\* C16: an endpoint or storage claim that the fetch finds is updated and one
\* it does not find is created, and in both cases the invocation goes on;
\* only a workload that is found ends the invocation, with the
\* already-created error.
C16_FoundUpdatesAbsentCreates ==
    \A p \in Procs :
        /\ \A i \in DOMAIN log[p] :
              Resolved(log[p][i])
              => /\ i = Len(log[p]) => pc[p] # "done"
                 /\ i < Len(log[p])
                    => /\ log[p][i + 1].kind = log[p][i].kind
                       /\ log[p][i + 1].op =
                            (IF log[p][i].err = ErrNil THEN "Update"
                             ELSE "Create")
        /\ (pc[p] = "done" /\ result[p] = ErrAlreadyCreated)
           <=> log[p] = << Entry("Get", "Deployment", ErrNil) >>

\* one invocation that updated the endpoint it found and created the
\* storage claim it did not find
C16_Witness ==
    \E p \in Procs :
        /\ pc[p] = "done" /\ result[p] = ErrNil /\ Len(log[p]) = 6
        /\ log[p][3] = Entry("Get", "Service", ErrNil)
        /\ log[p][4] = Entry("Update", "Service", ErrNil)
        /\ log[p][5] = Entry("Get", "PersistentVolumeClaim", ErrNotFound)
        /\ log[p][6] = Entry("Create", "PersistentVolumeClaim", ErrNil)

\* ---------------------------------------------------------------- C17
\* the number of applies (or, for applies = FALSE, of fetches) in l
RECURSIVE CountOps(_, _)
CountOps(l, applies) ==
    IF l = <<>> THEN 0
    ELSE (IF IsApply(Head(l)) = applies THEN 1 ELSE 0)
         + CountOps(Tail(l), applies)

\* C17: every invocation of CreateDatabase terminates, after at most three
\* fetches and at most three applies, none of them repeated.
C17_Terminates ==
    /\ \A p \in Procs : (pc[p] = "getDD") ~> (pc[p] = "done")
    /\ [](\A p \in Procs :
            /\ CountOps(log[p], FALSE) <= 3
            /\ CountOps(log[p], TRUE) <= 3
            /\ \A i, j \in DOMAIN log[p] :
                  (i < j /\ log[p][i].kind = log[p][j].kind)
                  => (log[p][i].op = "Get" /\ IsApply(log[p][j])))

\* an invocation that returned after three fetches and three applies
C17_Witness ==
    \E p \in Procs :
        /\ pc[p] = "done"
        /\ CountOps(log[p], FALSE) = 3
        /\ CountOps(log[p], TRUE) = 3

\* ---------------------------------------------------------------- C18
\* C18: the workload is only ever written by a create issued after a fetch
\* that found no workload; no invocation updates a workload, so a stored
\* workload is never modified.
C18_WorkloadCreateOnly ==
    /\ [](\A p \in Procs : \A i \in DOMAIN log[p] :
            (log[p][i].kind = "Deployment" /\ IsApply(log[p][i]))
            => /\ log[p][i].op = "Create"
               /\ i = 2
               /\ log[p][1] = Entry("Get", "Deployment", ErrNotFound))
    /\ [][\A o \in store : o.meta.kind = "Deployment" => o \in store']_vars

\* one invocation created the workload and the loser of the race with it
\* left that workload as it was
C18_Witness ==
    \E p, q \in Procs :
        /\ Len(log[p]) >= 2
        /\ log[p][2] = Entry("Create", "Deployment", ErrNil)
        /\ log[q] = << Entry("Get", "Deployment", ErrNotFound),
                       Entry("Create", "Deployment", ErrAlreadyExists) >>
        /\ nn[q] = nn[p]
        /\ \E o \in At(store, "Deployment", nn[p]) :
              Credentials(o) = <<cfg[p].Username, cfg[p].Password, cfg[p].PgPass>>

\* ---------------------------------------------------------------- C19
\* C19: at an identity where the store held nothing to begin with, a
\* storage claim exists only if the endpoint exists and the endpoint exists
\* only if the workload exists.
C19_DependencyOrder ==
    \A a \in env.descriptors :
        LET n == Derive(a)
        IN  Slice(store0, n) = {}
            => /\ Has(store, "PersistentVolumeClaim", n)
                  => Has(store, "Service", n)
               /\ Has(store, "Service", n) => Has(store, "Deployment", n)

\* the endpoint was stored, the storage claim was not
C19_Witness ==
    \E p \in Procs :
        /\ Slice(store0, nn[p]) = {}
        /\ pc[p] = "done" /\ Len(log[p]) = 6 /\ IsFailure(log[p][6])
        /\ Has(store, "Deployment", nn[p])
        /\ Has(store, "Service", nn[p])
        /\ ~Has(store, "PersistentVolumeClaim", nn[p])

\* ---------------------------------------------------------------- C20
\* C20: an invocation fetches or applies the endpoint or the storage claim
\* only after its own create of the workload succeeded; so of all
\* invocations for one identity at most one ever touches the endpoint and
\* the storage claim and at most one returns nil.
C20_OnlyCreatorProceeds ==
    /\ \A p \in Procs : \A i \in DOMAIN log[p] :
          log[p][i].kind \in {"Service", "PersistentVolumeClaim"}
          => /\ i > 2
             /\ log[p][2] = Entry("Create", "Deployment", ErrNil)
    /\ \A n \in Identities : touched[n] <= 1 /\ wins[n] <= 1
    /\ \A p, q \in Procs :
          (p # q /\ nn[p] = nn[q] /\ pc[p] = "done" /\ pc[q] = "done")
          => ~(result[p] = ErrNil /\ result[q] = ErrNil)

\* three invocations for one identity: one returned nil, one lost the race
\* for the create and touched nothing else
C20_Witness ==
    \E p, q \in Procs, n \in Identities :
        /\ nn[p] = n /\ nn[q] = n
        /\ invoked[n] >= 3 /\ touched[n] = 1 /\ wins[n] = 1
        /\ pc[q] = "done"
        /\ log[q] = << Entry("Get", "Deployment", ErrNotFound),
                       Entry("Create", "Deployment", ErrAlreadyExists) >>
====
